---- MODULE Spec2Model ----
(***************************************************************************)
(* State-machine model of the MSIBI optimizer (msibi/optimize.py): the     *)
(* registration calls add_state / add_force and the iteration loop of      *)
(* run_optimization, with the interaction terms' per-state records         *)
(* (msibi/bonds.py) and the external query simulations.  Further           *)
(* specifications cover the setup calls alone (SetupSpec), the dispatch of *)
(* the query simulations in msibi/workers.py (DispatchSpec), the fit score *)
(* calc_similarity (FitSpec) and the construction of a Bond (BondSpec).    *)
(***************************************************************************)
EXTENDS Integers, Sequences, FiniteSets, TLC

(* ------------------------------ bounds -------------------------------- *)
\* number of add_state calls
MaxStates == 1
\* number of add_force calls
MaxForces == 2
\* total number of iterations requested over all run_optimization calls
MaxIter == 2
\* number of add_state / add_force calls in the setup-only specification
MaxSetupStates == 2
MaxSetupForces == 3
\* length of the list handed to run_query_simulations
MaxQueue == 3
\* GPUs and CPUs of the machine
MaxGpus == 2
MaxCpus == 2
\* length of the arrays handed to calc_similarity, and their largest entry
MaxLen == 2
MaxVal == 1
\* length of a particle-type label
MaxLabelLen == 3

(* ------------------------------ inputs -------------------------------- *)
\* the four interaction kinds the optimizer partitions forces into
Kinds == {"Pair", "Bond", "Angle", "Dihedral"}

\* order in which _build_force_objects lists the engine objects
KindOrder == <<"Pair", "Bond", "Angle", "Dihedral">>

\* the Force objects handed to add_force: class, optimize flag, name
ForceObjs ==
    { [kind |-> "Bond", optimize |-> TRUE, name |-> "A-B"],
      [kind |-> "Angle", optimize |-> TRUE, name |-> "A-B-A"],
      [kind |-> "Angle", optimize |-> FALSE, name |-> "B-A-B"] }

\* the State objects handed to add_state
StateObjs == {"X", "Y"}

\* the State objects of the setup-only specification: the fixture stateX
\* and two states built without a name
SetupStateObjs == {"X", "U1", "U2"}

\* the Force objects of the setup-only specification: one of every kind
SetupForceObjs ==
    ForceObjs \cup
    { [kind |-> "Pair", optimize |-> FALSE, name |-> "A-A"],
      [kind |-> "Dihedral", optimize |-> FALSE, name |-> "A-B-A-B"] }

\* the State objects handed to run_query_simulations: their directory
\* (state_dir defaults to '') and whether a top_file was given
QueryStateObjs ==
    { [name |-> "X", state_dir |-> "x", top_file |-> TRUE,
       backup_trajectory |-> TRUE],
      [name |-> "Y", state_dir |-> "", top_file |-> TRUE,
       backup_trajectory |-> FALSE],
      [name |-> "Z", state_dir |-> "", top_file |-> FALSE,
       backup_trajectory |-> TRUE] }

\* the engine names tried
Engines == {"hoomd", "lammps", "LAMMPS", "gromacs"}

\* str.lower() on the engine names
Lower(e) == IF e = "LAMMPS" THEN "lammps" ELSE e

\* kT of a state
KT(s) == IF s = "X" THEN 1 ELSE 4

\* the name= argument of State(...); "" when it is left out
NameArg(s) == IF s \in {"X", "Y"} THEN s ELSE ""

\* State.name: the argument, or 'state-{0:.3f}'.format(kT), the kT being
\* printed with three decimals (kept here in thousandths)
StateName(s) ==
    IF NameArg(s) = "" THEN <<"state-", KT(s) * 1000>> ELSE <<NameArg(s), 0>>

\* alpha of a state (alpha0=1.0)
Alpha(s) == 1

\* densities a one-bin distribution can take; both are powers of two
DistVals == {1, 2}

\* exit codes of the external simulation process
ExitCodes == {0, 1}

\* log2 of a density
Lg(v) == IF v = 2 THEN 1 ELSE 0

\* target distribution of a state (from its target trajectory)
Target(s) == IF s = "X" THEN 1 ELSE 2

RECURSIVE Fact(_)
Fact(k) == IF k <= 1 THEN 1 ELSE k * Fact(k - 1)

\* potentials are kept as integers in units of ln(2)/Scale
Scale == Fact(Cardinality(StateObjs))

Abs(x) == IF x < 0 THEN -x ELSE x

(* ------------------------------ state --------------------------------- *)
VARIABLES
    n_iterations,     \* MSIBI.n_iterations
    states,           \* MSIBI.states
    forces,           \* MSIBI.forces
    optimize_forces,  \* MSIBI._optimize_forces
    potential,        \* force.potential, per Force object
    fstates,          \* force._states, per Force object
    traj,             \* state's query trajectory (0: none yet)
    pc,               \* "idle", or the position inside run_optimization
    n,                \* loop variable of run_optimization
    kReq,             \* argument n_iterations of the running call
    built,            \* local `forces` of run_optimization
    simIdx,           \* position of `for state in self.states`
    updated,          \* _update_potentials has returned in this iteration
    running,          \* indexes of states whose simulation is in flight
    exitcode,         \* exit code of each state's simulation, this iteration
    err,              \* exception raised by the last call ("none": returned)
    log,              \* history: the steps of the current iteration
    callN0,           \* history: n_iterations when the running call began
    dispatched,       \* history: some simulation has been dispatched
    budget,           \* history: iterations requested so far
    \* workers.run_query_simulations
    qstates,          \* argument `states`
    engine,           \* argument `engine`
    gpuInfo,          \* what _get_gpu_info() returns on this machine
    cpuCount,         \* what cpu_count() returns on this machine
    wpc,              \* position inside run_query_simulations ("off": no call)
    n_procs,          \* local n_procs
    worker,           \* local worker ("unbound" until assigned)
    taskq,            \* the pool's task queue: chunks of state indexes
    work,             \* per pool thread: the indexes of its chunk still to run
    live,             \* pool threads whose external process is running
    launched,         \* per state index: processes launched for it
    exited,           \* state indexes whose process has exited
    started,          \* history: state indexes in the order of their launches
    postIdx,          \* position of `for state in states: _post_query(state)`
    werr,             \* exception run_query_simulations ended with
    reloads,          \* per state index: calls of reload_query_trajectory
                      \* that returned
    archived,         \* <<state index, file>> for each backup_file call
    \* utils.error_calculation.calc_similarity
    fitArr1,          \* argument arr1
    fitArr2,          \* argument arr2
    fitOut,           \* the values returned for (arr1, arr2), (arr2, arr1),
                      \* (arr1, arr1); <<>> before the calls
    \* bonds.Bond
    type1,            \* first label given to the constructors
    type2,            \* second label given to the constructors
    bond_objs,        \* Bond(type1, type2), Bond(type2, type1); <<>> before
    \* bonds.Angle
    type3,            \* third label given to the Angle constructors
    angle_objs        \* Angle(type1, type2, type3), Angle(type3, type2, type1);
                      \* <<>> before

optVars == <<n_iterations, states, forces, optimize_forces, potential, fstates,
             traj, pc, n, kReq, built, simIdx, updated, running, exitcode, err,
             log, callN0, dispatched, budget>>

workerVars == <<qstates, engine, gpuInfo, cpuCount, wpc, n_procs, worker, taskq,
                work, live, launched, exited, started, postIdx, werr,
                reloads, archived>>

postVars == <<reloads, archived>>

fitVars == <<fitArr1, fitArr2, fitOut>>

bondVars == <<type1, type2, bond_objs, type3, angle_objs>>

\* the variables outside the optimizer
auxVars == <<workerVars, fitVars, bondVars>>

vars == <<optVars, workerVars, fitVars, bondVars>>

regVars == <<states, forces, optimize_forces>>
termVars == <<potential, fstates>>
loopVars == <<n, kReq, built, simIdx, updated, running, exitcode>>

TypeOK ==
    /\ n_iterations \in 0 .. MaxIter
    /\ states \in Seq(StateObjs)
    /\ forces \in Seq(ForceObjs)
    /\ optimize_forces \in Seq(ForceObjs)
    /\ \A i \in DOMAIN forces : forces[i].kind \in Kinds
    /\ pc \in {"idle", "loop", "body"}
    /\ err \in {"none", "RuntimeError", "KeyError", "IndexError"}
    /\ running \subseteq DOMAIN states
    /\ dispatched \in BOOLEAN
    /\ budget \in 0 .. MaxIter

\* no call of run_query_simulations is under way
WorkersOff ==
    /\ qstates = <<>>
    /\ engine = "hoomd"
    /\ gpuInfo = [found |-> FALSE, cards |-> <<>>]
    /\ cpuCount = 1
    /\ wpc = "off"
    /\ n_procs = 0
    /\ worker = "unbound"
    /\ taskq = <<>>
    /\ work = <<>>
    /\ live = {}
    /\ launched = <<>>
    /\ exited = {}
    /\ started = <<>>
    /\ postIdx = 1
    /\ werr = "none"
    /\ reloads = <<>>
    /\ archived = {}

\* no call of calc_similarity
FitOff == fitArr1 = <<>> /\ fitArr2 = <<>> /\ fitOut = <<>>

\* no Bond is constructed
BondsOff ==
    /\ type1 = <<>>
    /\ type2 = <<>>
    /\ bond_objs = <<>>
    /\ type3 = <<>>
    /\ angle_objs = <<>>

\* MSIBI.__init__
OptimizerInit ==
    /\ n_iterations = 0
    /\ states = <<>>
    /\ forces = <<>>
    /\ optimize_forces = <<>>
    /\ potential = [f \in ForceObjs |-> 0]
    /\ fstates = [f \in ForceObjs |-> <<>>]
    /\ traj = [s \in StateObjs |-> 0]
    /\ pc = "idle"
    /\ n = 0
    /\ kReq = 0
    /\ built = <<>>
    /\ simIdx = 1
    /\ updated = FALSE
    /\ running = {}
    /\ exitcode = <<>>
    /\ err = "none"
    /\ log = <<>>
    /\ callN0 = 0
    /\ dispatched = FALSE
    /\ budget = 0

Init == OptimizerInit /\ WorkersOff /\ FitOff /\ BondsOff

(* --------------------------- registration ----------------------------- *)
\* MSIBI.add_state: appends, and registers the state with no force
add_state(s) ==
    /\ pc = "idle"
    /\ states' = Append(states, s)
    /\ err' = "none"
    /\ UNCHANGED <<n_iterations, forces, optimize_forces, termVars, traj, pc,
                   loopVars, log, callN0, dispatched, budget>>
    /\ UNCHANGED auxVars

\* isinstance(force, f.__class__) for the sibling classes Pair/Bond/Angle/Dihedral
IsInstance(force, g) == force.kind = g.kind

KindCheckDropped(force) == TRUE

\* the all(...) of _add_optimize_force
KindCheckPasses(force) ==
    \A i \in DOMAIN optimize_forces : IsInstance(force, optimize_forces[i])

\* Bond._add_state: a fresh record for the state, replacing any earlier one
NewStateRecord(s) ==
    [target |-> Target(s), current |-> 0, alpha |-> Alpha(s), f_fit |-> <<>>]

AddStateTo(rec, s) ==
    [x \in (DOMAIN rec) \cup {s} |-> IF x = s THEN NewStateRecord(s) ELSE rec[x]]

RECURSIVE AddStatesTo(_, _)
\* `for state in self.states: force._add_state(state)`
AddStatesTo(rec, q) ==
    IF q = <<>> THEN rec ELSE AddStatesTo(AddStateTo(rec, Head(q)), Tail(q))

\* MSIBI.add_force: the append comes first, then the kind check, then _add_state
add_force(f) ==
    /\ pc = "idle"
    /\ forces' = Append(forces, f)
    /\ IF f.optimize /\ ~KindCheckPasses(f)
       THEN /\ err' = "RuntimeError"
            /\ UNCHANGED <<optimize_forces, fstates>>
       ELSE /\ err' = "none"
            /\ optimize_forces' =
                 IF f.optimize THEN Append(optimize_forces, f) ELSE optimize_forces
            /\ fstates' = [fstates EXCEPT ![f] = AddStatesTo(@, states)]
    /\ UNCHANGED <<n_iterations, states, potential, traj, pc, loopVars, log,
                   callN0, dispatched, budget>>
    /\ UNCHANGED auxVars

\* a call of add_state, while the model's bound on such calls allows one
AddState(s) == Len(states) < MaxStates /\ add_state(s)

\* a call of add_force, while the model's bound on such calls allows one
AddForce(f) == Len(forces) < MaxForces /\ add_force(f)

(* ------------------------- engine force objects ----------------------- *)
KindViewOfOptimized(k) == SelectSeq(optimize_forces, LAMBDA f : f.kind = k)

\* the kind views MSIBI.pairs / bonds / angles / dihedrals
KindView(k) == SelectSeq(forces, LAMBDA f : f.kind = k)

RECURSIVE SetParams(_, _)
\* `obj.params[force.name] = force._table_entry()`, in list order
SetParams(params, q) ==
    IF q = <<>> THEN params
    ELSE LET f == Head(q)
             p1 == [x \in (DOMAIN params) \cup {f.name} |->
                       IF x = f.name THEN potential[f] ELSE params[x]]
         IN  SetParams(p1, Tail(q))

\* the engine object of one kind (None when the kind has no force)
ForceObject(k) == [kind |-> k, params |-> SetParams(<<>>, KindView(k))]

BuildOptimizedOnly ==
    LET all == [i \in 1 .. 4 |->
                  [kind |-> KindOrder[i],
                   params |-> SetParams(<<>>, KindViewOfOptimized(KindOrder[i]))]]
    IN  SelectSeq(all, LAMBDA o : KindViewOfOptimized(o.kind) # <<>>)

\* MSIBI._build_force_objects: one object per kind that has a force
BuildForceObjects ==
    LET all == [i \in 1 .. 4 |-> ForceObject(KindOrder[i])]
    IN  SelectSeq(all, LAMBDA o : KindView(o.kind) # <<>>)

(* --------------------------- fit and update --------------------------- *)
RECURSIVE SumAbsDiff(_, _)
SumAbsDiff(a, b) ==
    IF a = <<>> THEN 0 ELSE Abs(Head(a) - Head(b)) + SumAbsDiff(Tail(a), Tail(b))

RECURSIVE SumAbsSum(_, _)
SumAbsSum(a, b) ==
    IF a = <<>> THEN 0
    ELSE Abs(Head(a)) + Abs(Head(b)) + SumAbsSum(Tail(a), Tail(b))

\* calc_similarity: 1 - sum|a-b| / sum(|a|+|b|) as the fraction num/den;
\* den = 0 is the 0/0 of the division (nan)
CalcSimilarity(arr1, arr2) ==
    LET d == SumAbsSum(arr1, arr2)
    IN  [num |-> d - SumAbsDiff(arr1, arr2), den |-> d]

\* distribution sampled from a state's query trajectory
Sample(s) == traj[s]

\* force._compute_current_distribution: refresh the state's current
\* distribution and append its fit score to the fit history
ComputeCurrentDistribution(rec, s) ==
    LET cur == Sample(s)
        fit == CalcSimilarity(<<cur>>, <<rec[s].target>>)
    IN  [rec EXCEPT ![s].current = cur, ![s].f_fit = Append(@, fit)]

RECURSIVE Recompute(_, _, _)
\* MSIBI._recompute_distribution for one force: per state, compute the
\* current distribution, then read force._states[state]["f_fit"][iteration]
Recompute(rec, q, it) ==
    IF q = <<>> THEN [err |-> "none", rec |-> rec]
    ELSE LET s == Head(q)
         IN  IF s \notin DOMAIN rec THEN [err |-> "KeyError", rec |-> rec]
             ELSE LET r1 == ComputeCurrentDistribution(rec, s)
                  IN  IF Len(r1[s].f_fit) <= it
                      THEN [err |-> "IndexError", rec |-> r1]
                      ELSE Recompute(r1, Tail(q), it)

RECURSIVE SumCorrections(_, _)
\* sum over the force's states of alpha * kT * ln(current / target), in ln(2)
SumCorrections(rec, S) ==
    IF S = {} THEN 0
    ELSE LET s == CHOOSE x \in S : TRUE
         IN  rec[s].alpha * KT(s) * (Lg(rec[s].current) - Lg(rec[s].target))
               + SumCorrections(rec, S \ {s})

\* force._update_potential: the Boltzmann-inversion correction of every
\* state, averaged over the force's states
UpdatePotential(f, rec, v) ==
    IF DOMAIN rec = {} THEN v
    ELSE v + (Scale \div Cardinality(DOMAIN rec)) * SumCorrections(rec, DOMAIN rec)

(* --------------------------- run_optimization ------------------------- *)
\* the call: `for n in range(n_iterations)` starts at n = 0
RunOptimization(k) ==
    /\ pc = "idle"
    /\ budget + k <= MaxIter
    /\ pc' = "loop"
    /\ n' = 0
    /\ kReq' = k
    /\ callN0' = n_iterations
    /\ budget' = budget + k
    /\ err' = "none"
    /\ UNCHANGED <<n_iterations, regVars, termVars, traj, built, simIdx, updated,
                   running, exitcode, log, dispatched>>
    /\ UNCHANGED auxVars

LoopContinuesInclusive == n <= kReq

\* range(n_iterations) has another element
LoopContinues == n < kReq

\* top of the loop body: forces = self._build_force_objects()
LoopNext ==
    /\ pc = "loop"
    /\ LoopContinues
    /\ pc' = "body"
    /\ built' = BuildForceObjects
    /\ simIdx' = 1
    /\ updated' = FALSE
    /\ exitcode' = [i \in 1 .. Len(states) |-> -1]
    /\ log' = <<[op |-> "build", arg |-> 0, iter |-> n_iterations]>>
    /\ UNCHANGED <<n_iterations, regVars, termVars, traj, n, kReq, running, err,
                   callN0, dispatched, budget>>
    /\ UNCHANGED auxVars

\* the loop is exhausted: run_optimization returns
LoopExit ==
    /\ pc = "loop"
    /\ ~LoopContinues
    /\ pc' = "idle"
    /\ n' = 0
    /\ kReq' = 0
    /\ callN0' = 0
    /\ built' = <<>>
    /\ simIdx' = 1
    /\ updated' = FALSE
    /\ exitcode' = <<>>
    /\ log' = <<>>
    /\ UNCHANGED <<n_iterations, regVars, termVars, traj, running, err,
                   dispatched, budget>>
    /\ UNCHANGED auxVars

SimIterationLoopVar == n

\* the `iteration=` argument of state._run_simulation
SimIteration == n_iterations

\* state._run_simulation is entered for the next state: the engine starts
SimStart ==
    /\ pc = "body"
    /\ running = {}
    /\ simIdx <= Len(states)
    /\ running' = {simIdx}
    /\ dispatched' = TRUE
    /\ log' = Append(log, [op |-> "sim", arg |-> simIdx, iter |-> SimIteration])
    /\ UNCHANGED <<n_iterations, regVars, termVars, traj, pc, n, kReq, built,
                   simIdx, updated, exitcode, err, callN0, budget>>
    /\ UNCHANGED auxVars

\* the engine exits with some code, leaving some trajectory; the call returns
SimExit(code, t) ==
    /\ pc = "body"
    /\ running = {simIdx}
    /\ running' = {}
    /\ exitcode' = [exitcode EXCEPT ![simIdx] = code]
    /\ traj' = [traj EXCEPT ![states[simIdx]] = t]
    /\ simIdx' = simIdx + 1
    /\ UNCHANGED <<n_iterations, regVars, termVars, pc, n, kReq, built, updated,
                   err, log, callN0, dispatched, budget>>
    /\ UNCHANGED auxVars

SimsCompleteOffByOne == simIdx >= Len(states)

\* `for state in self.states` is exhausted
SimsComplete == simIdx > Len(states)

UpdateTargetsAllForces == forces

\* the forces _update_potentials walks
UpdateTargets == optimize_forces

RECURSIVE UpdateAllStale(_, _, _, _)
UpdateAllStale(j, pot, fst, lg) ==
    IF j > Len(UpdateTargets)
    THEN [err |-> "none", potential |-> pot, fstates |-> fst, log |-> lg]
    ELSE LET f == UpdateTargets[j]
             r == Recompute(fst[f], states, n_iterations)
             fst1 == [fst EXCEPT ![f] = r.rec]
         IN  IF r.err # "none"
             THEN [err |-> r.err, potential |-> pot, fstates |-> fst1, log |-> lg]
             ELSE UpdateAllStale(j + 1,
                            [pot EXCEPT ![f] = UpdatePotential(f, fst[f], pot[f])],
                            fst1,
                            Append(lg, [op |-> "update", arg |-> j,
                                        iter |-> n_iterations]))

RECURSIVE UpdateAll(_, _, _, _)
\* the loop of _update_potentials from its j-th force on: recompute the
\* force's distributions, then force._update_potential(); an exception ends
\* the loop and leaves what was written before it
UpdateAll(j, pot, fst, lg) ==
    IF j > Len(UpdateTargets)
    THEN [err |-> "none", potential |-> pot, fstates |-> fst, log |-> lg]
    ELSE LET f == UpdateTargets[j]
             r == Recompute(fst[f], states, n_iterations)
             fst1 == [fst EXCEPT ![f] = r.rec]
         IN  IF r.err # "none"
             THEN [err |-> r.err, potential |-> pot, fstates |-> fst1, log |-> lg]
             ELSE UpdateAll(j + 1,
                            [pot EXCEPT ![f] = UpdatePotential(f, r.rec, pot[f])],
                            fst1,
                            Append(lg, [op |-> "update", arg |-> j,
                                        iter |-> n_iterations]))

\* self._update_potentials(), entered when every state has been simulated;
\* an exception ends the call of run_optimization
UpdatePotentials ==
    /\ pc = "body"
    /\ SimsComplete
    /\ ~updated
    /\ LET r == UpdateAll(1, potential, fstates, log)
       IN  /\ fstates' = r.fstates
           /\ potential' = r.potential
           /\ IF r.err # "none"
              THEN /\ err' = r.err
                   /\ pc' = "idle"
                   /\ n' = 0
                   /\ kReq' = 0
                   /\ callN0' = 0
                   /\ built' = <<>>
                   /\ simIdx' = 1
                   /\ exitcode' = <<>>
                   /\ log' = <<>>
                   /\ UNCHANGED updated
              ELSE /\ updated' = TRUE
                   /\ log' = r.log
                   /\ UNCHANGED <<err, pc, n, kReq, callN0, built, simIdx,
                                  exitcode>>
    /\ UNCHANGED <<n_iterations, regVars, traj, running, dispatched, budget>>
    /\ UNCHANGED auxVars

NextIterationCountFromLoopVar == n + 1

\* self.n_iterations += 1
NextIterationCount == n_iterations + 1

\* end of the loop body
Increment ==
    /\ pc = "body"
    /\ SimsComplete
    /\ updated
    /\ n_iterations' = NextIterationCount
    /\ n' = n + 1
    /\ pc' = "loop"
    /\ log' = Append(log, [op |-> "incr", arg |-> 0, iter |-> n_iterations])
    /\ UNCHANGED <<regVars, termVars, traj, kReq, built, simIdx, updated, running,
                   exitcode, err, callN0, dispatched, budget>>
    /\ UNCHANGED auxVars

Next ==
    \/ \E s \in StateObjs : AddState(s)
    \/ \E f \in ForceObjs : AddForce(f)
    \/ \E k \in 0 .. MaxIter : RunOptimization(k)
    \/ LoopNext
    \/ LoopExit
    \/ SimStart
    \/ \E code \in ExitCodes, t \in DistVals : SimExit(code, t)
    \/ UpdatePotentials
    \/ Increment

Spec == Init /\ [][Next]_vars

(* ----------------------- setup without a run -------------------------- *)
\* MSIBI.__init__, the objects handed to it later being the setup ones
SetupInit ==
    /\ WorkersOff
    /\ FitOff
    /\ BondsOff
    /\ n_iterations = 0
    /\ states = <<>>
    /\ forces = <<>>
    /\ optimize_forces = <<>>
    /\ potential = [f \in SetupForceObjs |-> 0]
    /\ fstates = [f \in SetupForceObjs |-> <<>>]
    /\ traj = [s \in SetupStateObjs |-> 0]
    /\ pc = "idle"
    /\ n = 0
    /\ kReq = 0
    /\ built = <<>>
    /\ simIdx = 1
    /\ updated = FALSE
    /\ running = {}
    /\ exitcode = <<>>
    /\ err = "none"
    /\ log = <<>>
    /\ callN0 = 0
    /\ dispatched = FALSE
    /\ budget = 0

\* the setup calls come before the one call of _build_force_objects
SetupAddState(s) ==
    Len(states) < MaxSetupStates /\ built = <<>> /\ add_state(s)

SetupAddForce(f) ==
    Len(forces) < MaxSetupForces /\ built = <<>> /\ add_force(f)

\* a direct call ff = msibi._build_force_objects(), as the tests make
SetupBuild ==
    /\ pc = "idle"
    /\ built = <<>>
    /\ built' = BuildForceObjects
    /\ UNCHANGED <<n_iterations, regVars, termVars, traj, pc, n, kReq, simIdx,
                   updated, running, exitcode, err, log, callN0, dispatched,
                   budget>>
    /\ UNCHANGED auxVars

SetupNext ==
    \/ \E s \in SetupStateObjs : SetupAddState(s)
    \/ \E f \in SetupForceObjs : SetupAddForce(f)
    \/ SetupBuild

SetupSpec == SetupInit /\ [][SetupNext]_vars

(* ---------------------- workers.run_query_simulations ------------------ *)
\* the lists of at most k State objects
RECURSIVE ListsUpTo(_, _)
ListsUpTo(S, k) ==
    IF k = 0 THEN {<<>>}
    ELSE LET shorter == ListsUpTo(S, k - 1)
         IN  shorter \cup {Append(q, x) : q \in shorter, x \in S}

\* _get_gpu_info(): None without nvidia-smi, else one card per line it lists
GpuInfos ==
    {[found |-> FALSE, cards |-> <<>>]}
    \cup {[found |-> TRUE, cards |-> [i \in 1 .. g |-> i - 1]] : g \in 0 .. MaxGpus}

\* a call run_query_simulations(states, engine) on some machine
DispatchInit ==
    /\ OptimizerInit
    /\ FitOff
    /\ BondsOff
    /\ qstates \in ListsUpTo(QueryStateObjs, MaxQueue)
    /\ engine \in Engines
    /\ gpuInfo \in GpuInfos
    /\ cpuCount \in 1 .. MaxCpus
    /\ wpc = "start"
    /\ n_procs = 0
    /\ worker = "unbound"
    /\ taskq = <<>>
    /\ work = <<>>
    /\ live = {}
    /\ launched = [i \in DOMAIN qstates |-> 0]
    /\ exited = {}
    /\ started = <<>>
    /\ postIdx = 1
    /\ werr = "none"
    /\ reloads = [i \in DOMAIN qstates |-> 0]
    /\ archived = {}

\* gpus = _get_gpu_info(); n_procs is cpu_count() when it is None
GatherHardware ==
    /\ wpc = "start"
    /\ n_procs' = IF gpuInfo.found THEN Len(gpuInfo.cards) ELSE cpuCount
    /\ wpc' = "select"
    /\ UNCHANGED <<qstates, engine, gpuInfo, cpuCount, worker, taskq, work, live,
                   launched, exited, started, postIdx, werr>>
    /\ UNCHANGED <<postVars, optVars, fitVars, bondVars>>

\* `if hoomd: ...` then `if lammps: ... else: raise`: the else belongs to the
\* second if alone
SelectWorker ==
    /\ wpc = "select"
    /\ LET w1 == IF Lower(engine) = "hoomd" THEN "_hoomd_worker" ELSE worker
       IN  IF Lower(engine) = "lammps"
           THEN worker' = "_lammps_worker" /\ wpc' = "pool" /\ UNCHANGED werr
           ELSE worker' = w1 /\ wpc' = "raised" /\ werr' = "UnsupportedEngine"
    /\ UNCHANGED <<qstates, engine, gpuInfo, cpuCount, n_procs, taskq, work, live,
                   launched, exited, started, postIdx>>
    /\ UNCHANGED <<postVars, optVars, fitVars, bondVars>>

\* math.ceil(a / b) for b > 0
Ceil(a, b) == (a + b - 1) \div b

\* the tasks imap makes of n items with chunksize c: consecutive indexes
Chunks(n_states, chunk_size) ==
    [k \in 1 .. Ceil(n_states, chunk_size) |->
        [i \in 1 .. (IF k * chunk_size <= n_states THEN chunk_size
                     ELSE n_states - (k - 1) * chunk_size) |->
            (k - 1) * chunk_size + i]]

\* Pool(n_procs): the number of pool threads
PoolSize == n_procs

\* chunk_size, Pool(n_procs), pool.imap(worker, worker_args, chunk_size)
StartPool ==
    /\ wpc = "pool"
    /\ IF n_procs = 0
       THEN wpc' = "raised" /\ werr' = "ZeroDivisionError"
            /\ UNCHANGED <<taskq, work>>
       ELSE IF Ceil(Len(qstates), n_procs) < 1
       THEN wpc' = "raised" /\ werr' = "ValueError"
            /\ UNCHANGED <<taskq, work>>
       ELSE /\ taskq' = Chunks(Len(qstates), Ceil(Len(qstates), n_procs))
            /\ work' = [t \in 1 .. PoolSize |-> <<>>]
            /\ wpc' = "running"
            /\ UNCHANGED werr
    /\ UNCHANGED <<qstates, engine, gpuInfo, cpuCount, n_procs, worker, live,
                   launched, exited, started, postIdx>>
    /\ UNCHANGED <<postVars, optVars, fitVars, bondVars>>

\* an idle pool thread takes the next task off the queue
Take(t) ==
    /\ wpc = "running"
    /\ work[t] = <<>>
    /\ taskq # <<>>
    /\ work' = [work EXCEPT ![t] = Head(taskq)]
    /\ taskq' = Tail(taskq)
    /\ UNCHANGED <<qstates, engine, gpuInfo, cpuCount, wpc, n_procs, worker, live,
                   launched, exited, started, postIdx, werr>>
    /\ UNCHANGED <<postVars, optVars, fitVars, bondVars>>

\* the worker opens log.txt / err.txt in state_dir and starts the engine
\* with cwd=state_dir
Launch(t) ==
    /\ wpc = "running"
    /\ work[t] # <<>>
    /\ t \notin live
    /\ live' = live \cup {t}
    /\ launched' = [launched EXCEPT ![Head(work[t])] = @ + 1]
    /\ started' = Append(started, Head(work[t]))
    /\ UNCHANGED <<qstates, engine, gpuInfo, cpuCount, wpc, n_procs, worker, taskq,
                   work, exited, postIdx, werr>>
    /\ UNCHANGED <<postVars, optVars, fitVars, bondVars>>

\* proc.communicate() returns (whatever the exit code): the thread goes on
\* with the rest of its chunk
ProcExit(t) ==
    /\ wpc = "running"
    /\ t \in live
    /\ live' = live \ {t}
    /\ exited' = exited \cup {Head(work[t])}
    /\ work' = [work EXCEPT ![t] = Tail(@)]
    /\ UNCHANGED <<qstates, engine, gpuInfo, cpuCount, wpc, n_procs, worker, taskq,
                   launched, started, postIdx, werr>>
    /\ UNCHANGED <<postVars, optVars, fitVars, bondVars>>

\* card = gpus[idx % len(gpus)] for the state at position i of the list
\* (idx = i - 1), the card _hoomd_worker names on its command line
Card(i) == gpuInfo.cards[((i - 1) % Len(gpuInfo.cards)) + 1]

PoolQueueEmpty == taskq = <<>>

\* what pool.join() waits for: no task is queued and no thread is at work
PoolDrained == taskq = <<>> /\ \A t \in DOMAIN work : work[t] = <<>>

\* pool.close(); pool.join(): returns when every task has been run
Join ==
    /\ wpc = "running"
    /\ PoolDrained
    /\ wpc' = "post"
    /\ postIdx' = 1
    /\ UNCHANGED <<qstates, engine, gpuInfo, cpuCount, n_procs, worker, taskq, work,
                   live, launched, exited, started, werr>>
    /\ UNCHANGED <<postVars, optVars, fitVars, bondVars>>

\* the backup_file calls of _post_query for the state at index i
PostQueryBackups(i) ==
    {<<i, "log.txt">>, <<i, "err.txt">>}
    \cup (IF qstates[i].backup_trajectory THEN {<<i, "traj_path">>} ELSE {})

\* _post_query(state) -> state.reload_query_trajectory(), which reads
\* self.top_path, an attribute __init__ sets only when a top_file is given
PostQuery ==
    /\ wpc = "post"
    /\ postIdx <= Len(qstates)
    /\ IF qstates[postIdx].top_file
       THEN /\ reloads' = [reloads EXCEPT ![postIdx] = @ + 1]
            /\ archived' = archived \cup PostQueryBackups(postIdx)
            /\ postIdx' = postIdx + 1
            /\ UNCHANGED <<wpc, werr>>
       ELSE /\ wpc' = "raised"
            /\ werr' = "AttributeError"
            /\ UNCHANGED <<postIdx, postVars>>
    /\ UNCHANGED <<qstates, engine, gpuInfo, cpuCount, n_procs, worker, taskq, work,
                   live, launched, exited, started>>
    /\ UNCHANGED <<optVars, fitVars, bondVars>>

\* run_query_simulations returns
Return ==
    /\ wpc = "post"
    /\ postIdx > Len(qstates)
    /\ wpc' = "returned"
    /\ UNCHANGED <<qstates, engine, gpuInfo, cpuCount, n_procs, worker, taskq, work,
                   live, launched, exited, started, postIdx, werr>>
    /\ UNCHANGED <<postVars, optVars, fitVars, bondVars>>

DispatchNext ==
    \/ GatherHardware
    \/ SelectWorker
    \/ StartPool
    \/ \E t \in DOMAIN work : Take(t)
    \/ \E t \in DOMAIN work : Launch(t)
    \/ \E t \in DOMAIN work : ProcExit(t)
    \/ Join
    \/ PostQuery
    \/ Return

DispatchSpec == DispatchInit /\ [][DispatchNext]_vars

(* ------------------------- calc_similarity ----------------------------- *)
\* the arrays of a given length (np.absolute is taken of every entry, so
\* negative entries are allowed)
Arrays(len) == [1 .. len -> (0 - MaxVal) .. MaxVal]

\* two arrays of equal length, before calc_similarity is called on them
FitInit ==
    /\ OptimizerInit
    /\ WorkersOff
    /\ BondsOff
    /\ \E len \in 1 .. MaxLen : fitArr1 \in Arrays(len) /\ fitArr2 \in Arrays(len)
    /\ fitOut = <<>>

\* the calls calc_similarity(a, b), calc_similarity(b, a), calc_similarity(a, a)
Score ==
    /\ fitOut = <<>>
    /\ fitOut' = [ab |-> CalcSimilarity(fitArr1, fitArr2),
                  ba |-> CalcSimilarity(fitArr2, fitArr1),
                  aa |-> CalcSimilarity(fitArr1, fitArr1)]
    /\ UNCHANGED <<fitArr1, fitArr2>>
    /\ UNCHANGED <<optVars, workerVars, bondVars>>

FitNext == Score

FitSpec == FitInit /\ [][FitNext]_vars

\* the float a fraction num/den stands for is nan when den = 0 (numpy's 0/0)
IsNaN(r) == r.den = 0

\* == on floats: never true of a nan
FloatEq(r, q) == ~IsNaN(r) /\ ~IsNaN(q) /\ r.num * q.den = q.num * r.den

\* 0.0 <= r <= 1.0 on floats: never true of a nan (den is a sum of absolute
\* values, so it is positive when it is not zero)
InUnitInterval(r) == ~IsNaN(r) /\ 0 <= r.num /\ r.num <= r.den

(* ------------------------------ bonds.Bond ----------------------------- *)
\* the characters of a label, and their code points
Chars == {"0", "1", "A", "B"}

Ord(c) == CASE c = "0" -> 48 [] c = "1" -> 49 [] c = "A" -> 65 [] c = "B" -> 66

IsDigit(c) == c \in {"0", "1"}

\* the labels: the non-empty strings of at most MaxLabelLen characters
Labels == ListsUpTo(Chars, MaxLabelLen) \ {<<>>}

RECURSIVE SplitDigits(_, _)
\* re.split(r'(\d+)', text) with every run of digits read as an int: text
\* parts and numbers alternate, the first and the last part being text
SplitDigits(parts, text) ==
    LET last == parts[Len(parts)]
    IN  IF text = <<>>
        THEN IF last.isnum THEN Append(parts, [isnum |-> FALSE, txt |-> <<>>, val |-> 0])
             ELSE parts
        ELSE LET c == Head(text)
                 grown ==
                   IF IsDigit(c)
                   THEN IF last.isnum
                        THEN [parts EXCEPT ![Len(parts)].val = 10 * @ + (Ord(c) - 48)]
                        ELSE Append(parts, [isnum |-> TRUE, txt |-> <<>>,
                                            val |-> Ord(c) - 48])
                   ELSE IF last.isnum
                        THEN Append(parts, [isnum |-> FALSE, txt |-> <<c>>, val |-> 0])
                        ELSE [parts EXCEPT ![Len(parts)].txt = Append(@, c)]
             IN  SplitDigits(grown, Tail(text))

\* msibi.utils.sorting.natural_sort, the sort key: the label cut into text
\* and numbers, so that digits compare by value
natural_sort(text) ==
    SplitDigits(<<[isnum |-> FALSE, txt |-> <<>>, val |-> 0]>>, text)

RECURSIVE StrLess(_, _)
\* < on strings
StrLess(a, b) ==
    IF b = <<>> THEN FALSE
    ELSE IF a = <<>> THEN TRUE
    ELSE IF Head(a) # Head(b) THEN Ord(Head(a)) < Ord(Head(b))
    ELSE StrLess(Tail(a), Tail(b))

RECURSIVE KeyLess(_, _)
\* < on the keys, which are lists: the first differing part decides
KeyLess(k1, k2) ==
    IF k2 = <<>> THEN FALSE
    ELSE IF k1 = <<>> THEN TRUE
    ELSE IF Head(k1) # Head(k2)
         THEN IF Head(k1).isnum THEN Head(k1).val < Head(k2).val
              ELSE StrLess(Head(k1).txt, Head(k2).txt)
    ELSE KeyLess(Tail(k1), Tail(k2))

\* sorted([a, b], key=natural_sort): the sort is stable, so b comes first
\* only when its key is smaller
SortedPair(a, b) ==
    IF KeyLess(natural_sort(b), natural_sort(a)) THEN <<b, a>> ELSE <<a, b>>

\* Bond.__init__: type1, type2 and name
Bond(t1, t2) ==
    LET s == SortedPair(t1, t2)
    IN  [type1 |-> s[1], type2 |-> s[2], name |-> s[1] \o <<"-">> \o s[2]]

\* Angle.__init__: the labels as given, and the name
Angle(t1, t2, t3) ==
    [type1 |-> t1, type2 |-> t2, type3 |-> t3,
     name |-> t1 \o <<"-">> \o t2 \o <<"-">> \o t3]

\* the labels given as the third type of an Angle: one character each
EndLabels == {<<c>> : c \in Chars}

\* the labels, before the Bonds and the Angles are built
BondInit ==
    /\ OptimizerInit
    /\ WorkersOff
    /\ FitOff
    /\ type1 \in Labels
    /\ type2 \in Labels
    /\ bond_objs = <<>>
    /\ type3 \in EndLabels
    /\ angle_objs = <<>>

\* Bond(type1, type2, ...) and Bond(type2, type1, ...)
Construct ==
    /\ bond_objs = <<>>
    /\ bond_objs' = [ab |-> Bond(type1, type2), ba |-> Bond(type2, type1)]
    /\ UNCHANGED <<type1, type2, type3, angle_objs>>
    /\ UNCHANGED <<optVars, workerVars, fitVars>>

\* Angle(type1, type2, type3, ...) and Angle(type3, type2, type1, ...)
ConstructAngle ==
    /\ angle_objs = <<>>
    /\ angle_objs' = [abc |-> Angle(type1, type2, type3),
                      cba |-> Angle(type3, type2, type1)]
    /\ UNCHANGED <<type1, type2, type3, bond_objs>>
    /\ UNCHANGED <<optVars, workerVars, fitVars>>

BondNext == Construct \/ ConstructAngle

BondSpec == BondInit /\ [][BondNext]_vars

(* ------------------------------ claims -------------------------------- *)
IsPrefix(a, b) == Len(a) <= Len(b) /\ a = SubSeq(b, 1, Len(a))

\* the steps of one iteration that starts with n_iterations = it, in order
ExpectedLog(it) ==
    <<[op |-> "build", arg |-> 0, iter |-> it]>>
    \o [i \in 1 .. Len(states) |-> [op |-> "sim", arg |-> i, iter |-> it]]
    \o [j \in 1 .. Len(optimize_forces) |-> [op |-> "update", arg |-> j, iter |-> it]]
    \o <<[op |-> "incr", arg |-> 0, iter |-> it]>>

\* every registered force has its entry in the engine object of its kind
Covers(objs) ==
    \A i \in DOMAIN forces :
        \E j \in DOMAIN objs :
            /\ objs[j].kind = forces[i].kind
            /\ forces[i].name \in DOMAIN objs[j].params

Homogeneous(q) == \A i, j \in DOMAIN q : q[i].kind = q[j].kind

AllSimsExited == \A i \in DOMAIN exitcode : exitcode[i] # -1

SomeSimFailed == \E i \in DOMAIN exitcode : exitcode[i] > 0

\* C1: n_iterations starts at 0 and no step decreases it; when a call
\* run_optimization(k) returns normally the counter is its value at the call
\* plus k, so the next call resumes from there.
C1_CounterOnlyGrows ==
    /\ n_iterations = 0
    /\ [][ /\ n_iterations' >= n_iterations
           /\ (pc = "loop" /\ pc' = "idle" /\ err' = "none")
                 => n_iterations' = callN0 + kReq ]_vars

\* C1 witness: a second call, of k >= 1 iterations, is about to return
C1_Witness ==
    /\ pc = "loop"
    /\ ~(n < kReq)
    /\ kReq >= 1
    /\ callN0 >= 1
    /\ n_iterations = callN0 + kReq

\* C2: inside an iteration the steps done so far are a prefix of: one build
\* of the force objects (covering every registered force), the simulation of
\* every state in order, the update of every optimized force, the increment;
\* all of them carry the iteration index the counter had at the build, and the
\* counter moves only with the last step.
C2_IterationOrder ==
    (pc = "body" \/ (pc = "loop" /\ n > 0)) =>
        /\ log # <<>>
        /\ IsPrefix(log, ExpectedLog(log[1].iter))
        /\ Covers(built)
        /\ (pc = "body" => n_iterations = log[1].iter)
        /\ (pc = "loop" => /\ log = ExpectedLog(log[1].iter)
                           /\ n_iterations = log[1].iter + 1)

\* C2 witness: an iteration of a resumed run has completed with a state, an
\* optimized force and a fixed force, all four kinds of step done
C2_Witness ==
    /\ pc = "loop"
    /\ n > 0
    /\ callN0 > 0
    /\ Len(states) >= 1
    /\ Len(optimize_forces) = 1
    /\ Len(forces) = 2
    /\ Len(log) = Len(states) + 3

\* C3: a call run_optimization(n_iterations=0) returns at once and changes
\* neither a potential, a fit history, a trajectory, the counter nor the
\* registrations, and starts no simulation.
C3_ZeroIterationsNoOp ==
    [][ ((pc = "idle" /\ pc' = "loop" /\ kReq' = 0) \/ (pc = "loop" /\ kReq = 0))
          => /\ UNCHANGED <<potential, fstates, n_iterations, traj, running,
                            dispatched, states, forces, optimize_forces>>
             /\ pc' \in {"loop", "idle"}
             /\ (pc = "loop" => pc' = "idle")
             /\ err' = "none" ]_vars

\* C3 witness: a zero-iteration call is running on an optimizer that has a
\* state and an optimized force and has iterated before
C3_Witness ==
    /\ pc = "loop"
    /\ kReq = 0
    /\ states # <<>>
    /\ optimize_forces # <<>>
    /\ n_iterations >= 1

\* C4: the forces to optimize are always of one kind, and add_force of an
\* optimize=True force whose kind differs from a registered optimized force
\* raises and leaves the forces to optimize as they were.
C4_OneOptimizedKind ==
    [][ /\ Homogeneous(optimize_forces')
        /\ \A f \in ForceObjs :
             (/\ forces' = Append(forces, f)
              /\ f.optimize
              /\ \E i \in DOMAIN optimize_forces : optimize_forces[i].kind # f.kind)
             => (err' = "RuntimeError" /\ optimize_forces' = optimize_forces) ]_vars

\* C4 witness: an optimized force of a second kind has just been refused
C4_Witness ==
    /\ err = "RuntimeError"
    /\ Len(forces) = 2
    /\ Len(optimize_forces) = 1
    /\ forces[2].optimize
    /\ forces[2].kind # optimize_forces[1].kind

C6_FailureEscalated ==
    [][ (pc = "body" /\ SomeSimFailed) =>
          /\ (~AllSimsExited => pc' = "body")
          /\ (AllSimsExited => (pc' = "idle" /\ err' = "SimulationFailure")) ]_vars

\* C7: in an iteration in which a state's simulation has failed, no potential
\* changes and n_iterations is not incremented.
C7_NoCorrectionAfterFailure ==
    [][ (pc = "body" /\ SomeSimFailed) =>
          (potential' = potential /\ n_iterations' = n_iterations) ]_vars

\* C8: between iterations every optimized force holds, for every registered
\* state, a fit history with one entry per completed iteration, and the read
\* of the entry at index n_iterations never fails.
C8_FitHistoryPerIteration ==
    /\ err \notin {"KeyError", "IndexError"}
    /\ pc \in {"idle", "loop"} =>
         \A i \in DOMAIN optimize_forces : \A j \in DOMAIN states :
             /\ states[j] \in DOMAIN fstates[optimize_forces[i]]
             /\ Len(fstates[optimize_forces[i]][states[j]].f_fit) = n_iterations

\* C9: no step changes the potential of a force with optimize=False.
C9_FixedForcesKeepPotential ==
    [][ \A f \in ForceObjs : ~f.optimize => potential'[f] = potential[f] ]_vars

\* C9 witness: an iteration has corrected an optimized force while a fixed
\* force, registered with the same states, kept its potential
C9_Witness ==
    /\ n_iterations >= 1
    /\ \E i, j \in DOMAIN forces :
         /\ ~forces[i].optimize
         /\ DOMAIN fstates[forces[i]] # {}
         /\ potential[forces[i]] = 0
         /\ forces[j].optimize
         /\ potential[forces[j]] # 0

\* C10: once a simulation has been dispatched, a call between runs leaves the
\* registered states and forces as they were and ends in a configuration error.
C10_NoRegistrationAfterDispatch ==
    [][ (dispatched /\ pc = "idle" /\ pc' = "idle") =>
          (states' = states /\ forces' = forces /\ err' = "ConfigurationError") ]_vars

\* C11: a call that registers a state with a force that already holds a
\* record for that state ends in a duplicate-state error and leaves the
\* force's records (target, alpha, fit history) as they were.
C11_DuplicateStateRejected ==
    [][ \A f \in ForceObjs :
          (/\ forces' = Append(forces, f)
           /\ err' # "RuntimeError"
           /\ \E i \in DOMAIN states : states[i] \in DOMAIN fstates[f])
          => (err' = "DuplicateStateError" /\ fstates'[f] = fstates[f]) ]_vars

\* C12: the names of the registered states are pairwise distinct.
C12_DistinctStateNames ==
    \A i, j \in DOMAIN states :
        i # j => StateName(states[i]) # StateName(states[j])

\* the kind views in which the i-th registered force appears
ViewsHolding(i) ==
    {k \in Kinds : \E j \in DOMAIN KindView(k) : KindView(k)[j] = forces[i]}

\* C20: every add_state / add_force call appends one object at the end of
\* its list and moves nothing else (no other call touches the lists), so the
\* lists hold the registered objects in registration order; every registered
\* force is in exactly one of the views pairs, bonds, angles, dihedrals,
\* whose sizes sum to len(forces).
C20_RegistrationOrderAndViews ==
    /\ [](/\ \A i \in DOMAIN forces : Cardinality(ViewsHolding(i)) = 1
          /\ Len(KindView("Pair")) + Len(KindView("Bond"))
               + Len(KindView("Angle")) + Len(KindView("Dihedral")) = Len(forces))
    /\ [][ \/ \E s \in SetupStateObjs :
                states' = Append(states, s) /\ forces' = forces
           \/ \E f \in SetupForceObjs :
                forces' = Append(forces, f) /\ states' = states
           \/ (built' # built /\ states' = states /\ forces' = forces) ]_vars

\* C20 witness: two states and three forces of three kinds, one of them
\* optimized and one a pair, have been registered
C20_Witness ==
    /\ Len(states) = 2
    /\ states[1] # states[2]
    /\ Len(forces) = 3
    /\ Cardinality({forces[i].kind : i \in DOMAIN forces}) = 3
    /\ Len(KindView("Pair")) = 1
    /\ Len(optimize_forces) = 1

\* a dispatch round has begun: the pool exists
RoundBegun ==
    wpc \in {"running", "post", "returned"} \/ werr = "AttributeError"

\* the pool has been joined
RoundOver == wpc \in {"post", "returned"} \/ werr = "AttributeError"

C14_ExclusiveDirectory ==
    \A t1, t2 \in live :
        t1 # t2 =>
            qstates[Head(work[t1])].state_dir # qstates[Head(work[t2])].state_dir

\* C15: the simulations start in list order: whenever a state's simulation
\* has started, that of every state listed before it started earlier.
C15_FifoStart ==
    \A a, b \in DOMAIN started : a < b => started[a] < started[b]

\* C16: past the engine selection, the unsupported-engine error has been
\* raised exactly when the lower-cased engine name is neither 'hoomd' nor
\* 'lammps'; for these two the matching worker is selected; and when the
\* error is raised no process has been launched.
C16_UnsupportedEngineIff ==
    wpc \notin {"off", "start", "select"} =>
        /\ (werr = "UnsupportedEngine") <=> (Lower(engine) \notin {"hoomd", "lammps"})
        /\ Lower(engine) = "hoomd" => worker = "_hoomd_worker"
        /\ Lower(engine) = "lammps" => worker = "_lammps_worker"
        /\ werr = "UnsupportedEngine" => started = <<>>

AllZero(a) == \A i \in DOMAIN a : a[i] = 0

\* C17: calc_similarity(a, b) == calc_similarity(b, a) for all a and b of
\* equal length, and calc_similarity(x, x) == 1.0 for every x not all zero.
C17_SimilaritySymmetric ==
    fitOut # <<>> =>
        /\ FloatEq(fitOut.ab, fitOut.ba)
        /\ ~AllZero(fitArr1) => FloatEq(fitOut.aa, [num |-> 1, den |-> 1])

\* C18: calc_similarity returns a value in [0, 1], and 0.0 when the
\* denominator, the sum of |arr1_i| + |arr2_i|, is zero.
C18_SimilarityRangeAndZeroGuard ==
    fitOut # <<>> =>
        /\ InUnitInterval(fitOut.ab)
        /\ SumAbsSum(fitArr1, fitArr2) = 0
             => FloatEq(fitOut.ab, [num |-> 0, den |-> 1])

ObjectsOfKind(objs, k) == {j \in DOMAIN objs : objs[j].kind = k}

\* C21: the list _build_force_objects returns has exactly one object for
\* each kind with a registered force, none for a kind without one, and every
\* registered force, optimized or fixed, has its entry in its kind's object.
C21_OneObjectPerKind ==
    built # <<>> =>
        /\ \A k \in Kinds :
             Cardinality(ObjectsOfKind(built, k))
               = IF \E i \in DOMAIN forces : forces[i].kind = k THEN 1 ELSE 0
        /\ \A i \in DOMAIN forces :
             \A j \in ObjectsOfKind(built, forces[i].kind) :
                 forces[i].name \in DOMAIN built[j].params

\* C21 witness: built from three forces, two of one kind (one optimized, one
\* fixed) and one of another
C21_Witness ==
    /\ Len(built) = 2
    /\ Len(forces) = 3
    /\ \E i, j \in DOMAIN forces :
         /\ forces[i].kind = forces[j].kind
         /\ forces[i].optimize
         /\ ~forces[j].optimize

\* the force's current distribution equals its target for every state
AtTarget(rec) == \A s \in DOMAIN rec : rec[s].current = rec[s].target

C23_TopFileOptional ==
    [][ (wpc = "post" /\ postIdx <= Len(qstates) /\ ~qstates[postIdx].top_file)
        => (werr' = werr /\ postIdx' = postIdx + 1) ]_vars

\* the pool has been joined and run_query_simulations has returned or raised
RoundEnded == wpc = "returned" \/ werr = "AttributeError"

\* calls of reload_query_trajectory that returned, on the State object s
ReloadsOf(s) ==
    Cardinality({i \in DOMAIN qstates : qstates[i] = s /\ reloads[i] >= 1})

\* C24: a state's trajectory is reloaded only after its process has exited,
\* and when the dispatch round has ended every state has been reloaded
\* exactly once, its log.txt and err.txt have been archived, and its
\* trajectory file has been archived iff its backup_trajectory flag is set.
C24_ReloadAndArchivePerState ==
    /\ \A i \in DOMAIN reloads :
         /\ reloads[i] <= 1
         /\ reloads[i] >= 1 => i \in exited
         /\ <<i, "traj_path">> \in archived => qstates[i].backup_trajectory
    /\ RoundEnded =>
         \A i \in DOMAIN qstates :
           /\ ReloadsOf(qstates[i]) = 1
           /\ <<i, "log.txt">> \in archived
           /\ <<i, "err.txt">> \in archived
           /\ <<i, "traj_path">> \in archived <=> qstates[i].backup_trajectory

\* C25: Angle(A, B, C, ...) and Angle(C, B, A, ...) have the same name.
C25_AngleOrderIndependent ==
    angle_objs # <<>> => angle_objs.abc.name = angle_objs.cba.name

\* the add_force call that registered f ran to its end
Accepted(f) ==
    ~f.optimize \/ \E j \in DOMAIN optimize_forces : optimize_forces[j] = f

\* C26: whatever the order of the add_state and add_force calls, every force
\* whose registration was accepted holds a per-state record for every
\* registered state.
C26_EveryForceHasEveryState ==
    \A i \in DOMAIN forces :
        Accepted(forces[i]) =>
            \A j \in DOMAIN states : states[j] \in DOMAIN fstates[forces[i]]

\* C27: an add_force call that ends with the kind-conflict error leaves the
\* optimizer as it was: MSIBI.forces, the forces to optimize and the
\* per-state records of every force are unchanged.
C27_RejectedForceLeavesNoTrace ==
    [][ (err' = "RuntimeError" /\ built' = built)
        => /\ forces' = forces
           /\ optimize_forces' = optimize_forces
           /\ fstates' = fstates ]_vars

====
